---- MODULE Spec2Model ----
(***************************************************************************)
(* A model of the rustic compiler: the lexer (src/src/compiler/lexer.rs),  *)
(* the compiler facade (src/src/compiler/mod.rs) and the command line      *)
(* driver (src/src/main.rs).                                               *)
(*                                                                         *)
(* Characters are one-character strings; a source text is a sequence of    *)
(* characters.  Positions are 0-based as in the code (input[position] is   *)
(* inp[position + 1] here).                                                *)
(***************************************************************************)
EXTENDS Integers, Sequences, FiniteSets, TLC

\* ------------------------------------------------------------------ bounds

\* longest source text given to the lexer
MaxLen == 3

\* ------------------------------------------------------------- characters

\* what peek() answers at the end of input ('\0')
NUL == "NUL"

\* advance() called at the end of input, on a build that indexes the input
\* without a check: the thread panics
PANIC == "PANIC"

\* The body of advance() is not part of the sources.  At the end of input it
\* either answers '\0' or indexes out of bounds and panics; both are kept.
AdvanceAtEnd == {"nul", "panic"}

Space == " "
Newline == "\n"
Quote == "\""
Backslash == "\\"

Digits == {"1"}
Letters == {"n"}

\* the characters source texts are drawn from
Alphabet ==
    {Space, Newline, "/", "-", ">", "=", "!", "<", "&", "|", Quote, Backslash,
     "n", "1", "@", "%", "("}

is_ascii_digit(c) == c \in Digits

is_ascii_alphabetic(c) == c \in Letters

\* all source texts of at most n characters
RECURSIVE TextsUpTo(_)
TextsUpTo(n) ==
    IF n = 0 THEN {<<>>}
    ELSE LET shorter == TextsUpTo(n - 1)
         IN  shorter \cup {Append(t, c) : t \in {s \in shorter : Len(s) = n - 1}, c \in Alphabet}

\* ------------------------------------------------------------------ lexer
\* A lexer state L is [position, line, column]; the input is passed along.

NewLexer == [position |-> 0, line |-> 1, column |-> 1]

is_at_end(inp, L) == L.position >= Len(inp)

peek(inp, L) == IF is_at_end(inp, L) THEN NUL ELSE inp[L.position + 1]

\* consume one character: [c, L]
advance(inp, L, m) ==
    IF is_at_end(inp, L)
    THEN [c |-> IF m = "nul" THEN NUL ELSE PANIC, L |-> L]
    ELSE [c |-> inp[L.position + 1],
          L |-> [L EXCEPT !.position = @ + 1, !.column = @ + 1]]

\* consume the next character if it is the expected one: [matched, L]
match_char(inp, L, expected) ==
    IF is_at_end(inp, L) \/ inp[L.position + 1] # expected
    THEN [matched |-> FALSE, L |-> L]
    ELSE [matched |-> TRUE,
          L |-> [L EXCEPT !.position = @ + 1, !.column = @ + 1]]

\* skip blanks; a newline is a token of its own (scan_token's '\n' arm)
RECURSIVE skip_whitespace(_, _)
skip_whitespace(inp, L) ==
    IF ~is_at_end(inp, L) /\ inp[L.position + 1] = Space
    THEN skip_whitespace(inp, [L EXCEPT !.position = @ + 1, !.column = @ + 1])
    ELSE L

\* results of a scan: Ok(token type), Err(lex error), or a panic
TokOk(type, text, L) == [kind |-> "ok", type |-> type, text |-> text, L |-> L]

LexError(msg, arg, L) == [kind |-> "err", msg |-> msg, arg |-> arg, L |-> L]

Panicked(L) == [kind |-> "panic", L |-> L]

RECURSIVE number_run(_, _)
number_run(inp, L) ==
    IF is_ascii_digit(peek(inp, L))
    THEN number_run(inp, [L EXCEPT !.position = @ + 1, !.column = @ + 1])
    ELSE L

\* the first digit is consumed already; start is its position
scan_number(inp, start, L) ==
    LET L1 == number_run(inp, L)
    IN  TokOk("Integer", SubSeq(inp, start + 1, L1.position), L1)

RECURSIVE identifier_run(_, _)
identifier_run(inp, L) ==
    LET c == peek(inp, L)
    IN  IF is_ascii_alphabetic(c) \/ is_ascii_digit(c) \/ c = "_"
        THEN identifier_run(inp, [L EXCEPT !.position = @ + 1, !.column = @ + 1])
        ELSE L

\* the fixed keyword table: the spelling of a keyword and its token type
Keywords ==
    {<<"let", "Let">>, <<"var", "Var">>, <<"fn", "Fn">>, <<"if", "If">>,
     <<"else", "Else">>, <<"for", "For">>, <<"in", "In">>, <<"try", "Try">>,
     <<"catch", "Catch">>, <<"return", "Return">>, <<"import", "Import">>,
     <<"struct", "Struct">>, <<"throw", "Throw">>}

\* a sequence of characters as one string
RECURSIVE Spelling(_)
Spelling(text) == IF text = <<>> THEN "" ELSE Head(text) \o Spelling(Tail(text))

scan_identifier(inp, start, L) ==
    LET L1 == identifier_run(inp, L)
        text == SubSeq(inp, start + 1, L1.position)
        kw == {k \in Keywords : k[1] = Spelling(text)}
    IN  TokOk(IF kw = {} THEN "Identifier" ELSE (CHOOSE k \in kw : TRUE)[2], text, L1)

\* the escapes scan_string knows, and the character each stands for
Escapes == {"n", "t", "r", Backslash, Quote}

Unescape(c) ==
    IF c = "n" THEN Newline
    ELSE IF c = "t" THEN "\t"
    ELSE IF c = "r" THEN "\r"
    ELSE c

\* the while loop of scan_string and what follows it
RECURSIVE scan_string_loop(_, _, _, _)
scan_string_loop(inp, L, value, m) ==
    IF peek(inp, L) # Quote /\ ~is_at_end(inp, L)
    THEN LET L0 == IF peek(inp, L) = Newline
                   THEN [L EXCEPT !.line = @ + 1, !.column = 1]
                   ELSE L
             a  == advance(inp, L0, m)
         IN  IF a.c = PANIC THEN Panicked(a.L)
             ELSE IF a.c = Backslash
             THEN LET e == advance(inp, a.L, m)
                  IN  IF e.c = PANIC THEN Panicked(e.L)
                      ELSE IF e.c \in Escapes
                      THEN scan_string_loop(inp, e.L, Append(value, Unescape(e.c)), m)
                      ELSE LexError("Invalid escape sequence: \\", e.c, e.L)
             ELSE scan_string_loop(inp, a.L, Append(value, a.c), m)
    ELSE IF is_at_end(inp, L)
    THEN LexError("Unterminated string", "", L)
    ELSE LET close == advance(inp, L, m)
         IN  TokOk("String", value, close.L)

scan_string(inp, L, m) == scan_string_loop(inp, L, <<>>, m)

\* the while loop of the comment arm
RECURSIVE skip_comment(_, _)
skip_comment(inp, L) ==
    IF peek(inp, L) # Newline /\ ~is_at_end(inp, L)
    THEN skip_comment(inp, [L EXCEPT !.position = @ + 1, !.column = @ + 1])
    ELSE L

\* a scan that never looks at the second character
TwoCharArmNotGreedy(inp, L, second, two, one) == TokOk(one, <<>>, L)

\* one of the arms `c => if self.match_char(second) { two } else { one }`
TwoCharArm(inp, L, second, two, one) ==
    LET mc == match_char(inp, L, second)
    IN  IF mc.matched THEN TokOk(two, <<>>, mc.L) ELSE TokOk(one, <<>>, mc.L)

\* one of the arms `c => if self.match_char(c) { two } else { Err(..) }`
PairOnlyArm(inp, L, c, two) ==
    LET mc == match_char(inp, L, c)
    IN  IF mc.matched THEN TokOk(two, <<>>, mc.L)
        ELSE LexError("Unexpected character: ", c, mc.L)

\* the match of scan_token, arm by arm in the order of the source: the second
\* '(' arm (Percent) comes after the first and is never taken, and '%' has no
\* arm of its own
RECURSIVE scan_token(_, _, _)
scan_token(inp, L, m) ==
    LET a  == advance(inp, L, m)
        c  == a.c
        L1 == a.L
    IN  IF c = PANIC THEN Panicked(L1)
        ELSE IF c = "(" THEN TokOk("LeftParen", <<>>, L1)
        ELSE IF c = ")" THEN TokOk("RightParen", <<>>, L1)
        ELSE IF c = "{" THEN TokOk("LeftBrace", <<>>, L1)
        ELSE IF c = "}" THEN TokOk("RightBrace", <<>>, L1)
        ELSE IF c = "[" THEN TokOk("LeftBracket", <<>>, L1)
        ELSE IF c = "]" THEN TokOk("RightBracket", <<>>, L1)
        ELSE IF c = "," THEN TokOk("Comma", <<>>, L1)
        ELSE IF c = "." THEN TokOk("Dot", <<>>, L1)
        ELSE IF c = ":" THEN TokOk("Colon", <<>>, L1)
        ELSE IF c = ";" THEN TokOk("Semicolon", <<>>, L1)
        ELSE IF c = "+" THEN TokOk("Plus", <<>>, L1)
        ELSE IF c = "(" THEN TokOk("Percent", <<>>, L1)
        ELSE IF c = Newline
        THEN TokOk("Newline", <<>>, [L1 EXCEPT !.line = @ + 1, !.column = 1])
        ELSE IF c = "-" THEN TwoCharArm(inp, L1, ">", "Arrow", "Minus")
        ELSE IF c = "*" THEN TokOk("Star", <<>>, L1)
        ELSE IF c = "/"
        THEN LET mc == match_char(inp, L1, "/")
             IN  IF mc.matched
                 THEN scan_token(inp, skip_comment(inp, mc.L), m)
                 ELSE TokOk("Slash", <<>>, mc.L)
        ELSE IF c = "=" THEN TwoCharArm(inp, L1, "=", "Equal", "Assign")
        ELSE IF c = "!" THEN TwoCharArm(inp, L1, "=", "NotEqual", "Not")
        ELSE IF c = "<" THEN TwoCharArm(inp, L1, "=", "LessEqual", "Less")
        ELSE IF c = ">" THEN TwoCharArm(inp, L1, "=", "GreaterEqual", "Greater")
        ELSE IF c = "&" THEN PairOnlyArm(inp, L1, "&", "And")
        ELSE IF c = "|" THEN PairOnlyArm(inp, L1, "|", "Or")
        ELSE IF c = Quote THEN scan_string(inp, L1, m)
        ELSE IF is_ascii_digit(c) THEN scan_number(inp, L.position, L1)
        ELSE IF is_ascii_alphabetic(c) \/ c = "_" THEN scan_identifier(inp, L.position, L1)
        ELSE LexError("Unexpected character: ", c, L1)

\* the token pushed after a successful scan that began at L0 and left the
\* lexer at r.L
MakeToken(r, L0) ==
    [token_type |-> r.type,
     text |-> r.text,
     start_pos |-> L0.position,
     span |-> [start_line |-> L0.line, start_column |-> L0.column,
               end_line |-> r.L.line, end_column |-> r.L.column]]

\* a final token that is not Eof
EofTokenAsNewline(L) ==
    [token_type |-> "Newline",
     text |-> <<>>,
     start_pos |-> L.position,
     span |-> [start_line |-> L.line, start_column |-> L.column,
               end_line |-> L.line, end_column |-> L.column]]

EofToken(L) ==
    [token_type |-> "Eof",
     text |-> <<>>,
     start_pos |-> L.position,
     span |-> [start_line |-> L.line, start_column |-> L.column,
               end_line |-> L.line, end_column |-> L.column]]

\* tokenize as a whole: [kind |-> "ok", tokens] | [kind |-> "err", msg, arg] |
\* [kind |-> "panic"]
RECURSIVE tokenize_loop(_, _, _, _)
tokenize_loop(inp, L, toks, m) ==
    IF is_at_end(inp, L) THEN [kind |-> "ok", tokens |-> Append(toks, EofToken(L))]
    ELSE LET L0 == skip_whitespace(inp, L)
         IN  IF is_at_end(inp, L0)
             THEN [kind |-> "ok", tokens |-> Append(toks, EofToken(L0))]
             ELSE LET r == scan_token(inp, L0, m)
                  IN  IF r.kind = "ok"
                      THEN tokenize_loop(inp, r.L, Append(toks, MakeToken(r, L0)), m)
                      ELSE IF r.kind = "err"
                      THEN [kind |-> "err", msg |-> r.msg, arg |-> r.arg]
                      ELSE [kind |-> "panic"]

tokenize(inp, m) == tokenize_loop(inp, NewLexer, <<>>, m)


\* --------------------------------------------------------- the environment

\* most entries the directory walk yields
MaxEntries == 2

\* most Error diagnostics one analysis pass records
MaxErrors == 1

\* most fields a struct declares
MaxFields == 3

\* module names (file stems) of the source files
Stems == {"a", "b"}

\* source texts of the files: one that lexes, an unterminated string, a lone &
SampleTexts == {<<"n">>, <<Quote, "n">>, <<"&">>}

\* What WalkDir yields: an Err entry (a path that does not exist or cannot be
\* read), a file with another extension, or a file with the extension rsc.
WalkError == [kind |-> "error", stem |-> "a", text |-> <<>>]

OtherFile == [kind |-> "other", stem |-> "a", text |-> <<>>]

SourceFiles == [kind : {"rsc"}, stem : Stems, text : SampleTexts]

WalkEntries == {WalkError, OtherFile} \cup SourceFiles

RECURSIVE WalksUpTo(_)
WalksUpTo(n) ==
    IF n = 0 THEN {<<>>}
    ELSE LET shorter == WalksUpTo(n - 1)
         IN  shorter \cup {Append(w, e) : w \in {s \in shorter : Len(s) = n - 1}, e \in WalkEntries}

\* the files of the output directory
CargoToml == "Cargo.toml"
LibRs == "lib.rs"
Absent == [by |-> "nobody"]

\* format!("{}/{}.rs", output_dir, module_name)
RustFilePath(module_name) == module_name \o ".rs"

\* Path::new(path).file_stem() of a path made by RustFilePath
FileStem(path) == CHOOSE s \in Stems : RustFilePath(s) = path

OutputPaths == {RustFilePath(s) : s \in Stems} \cup {CargoToml, LibRs}

VARIABLES
    \* the lexer run on its own
    input, lexer, tokens, lexpc, lexerr,
    \* main and the compiler facade
    pc,               \* where the run is
    is_file,          \* Path::new(input_path).is_file()
    should_compile,   \* --compile
    walk,             \* what the directory walk yields, in order (one file in file mode)
    idx,              \* entries of the walk consumed so far
    cur,              \* the entry compile_source is working on
    toks,             \* the current module's tokens
    modules,          \* the registry: module name -> entry whose Program it holds
    generated_files,  \* compile_directory's list
    result,           \* main's `result`
    fs_out,           \* the output directory: path -> what was written
    diagnostics,      \* the diagnostic engine's list
    emit_all_called,  \* emit_all has run
    success_msg,      \* "Compilation successful!" was printed
    exit_code,        \* -1 while running
    cargo_runs,       \* times the cargo process was spawned
    cargo_failed,     \* cargo ended with a non-zero status
    done,             \* per entry: the stages of its pipeline that completed
    failed,           \* per entry: its pipeline returned an error
    io_errors,        \* the filesystem accesses that failed so far
    \* the code generator on one struct initializer
    struct_decl,      \* Struct::fields of the struct named: the declared order
    init_fields,      \* StructInitializer::fields: field name -> expression
    genpc,            \* generations done
    generated         \* the text of each generation, in order

lexvars == <<input, lexer, tokens, lexpc, lexerr>>

drivervars ==
    <<pc, is_file, should_compile, walk, idx, cur, toks, modules, generated_files,
      result, fs_out, diagnostics, emit_all_called, success_msg, exit_code,
      cargo_runs, cargo_failed, done, failed, io_errors>>

genvars == <<struct_decl, init_fields, genpc, generated>>

vars == <<lexvars, drivervars, genvars>>

NoError == [msg |-> "", arg |-> ""]

NoResult == [kind |-> "none", files |-> <<>>]

\* the lexer is not run on its own
LexIdle ==
    /\ input = <<>>
    /\ lexer = NewLexer
    /\ tokens = <<>>
    /\ lexpc = "idle"
    /\ lexerr = NoError

\* the code generator is not run on its own
GenIdle ==
    /\ struct_decl = <<>>
    /\ init_fields = [f \in {} |-> ""]
    /\ genpc = "idle"
    /\ generated = <<>>

\* RusticCompiler::new, DiagnosticEngine::new, and nothing run yet
DriverFresh ==
    /\ idx = 0
    /\ cur = 0
    /\ toks = <<>>
    /\ modules = [s \in {} |-> 0]
    /\ generated_files = <<>>
    /\ result = NoResult
    /\ fs_out = [p \in OutputPaths |-> Absent]
    /\ diagnostics = <<>>
    /\ emit_all_called = FALSE
    /\ success_msg = FALSE
    /\ exit_code = -1
    /\ cargo_runs = 0
    /\ cargo_failed = FALSE
    /\ done = [i \in 1..Len(walk) |-> {}]
    /\ failed = [i \in 1..Len(walk) |-> FALSE]
    /\ io_errors = {}

DriverIdle ==
    /\ pc = "idle"
    /\ is_file = FALSE
    /\ should_compile = FALSE
    /\ walk = <<>>
    /\ DriverFresh

\* main after argument parsing: a file, or anything else (a directory, or a
\* path that does not exist, whose walk yields one Err entry)
Init ==
    /\ LexIdle
    /\ GenIdle
    /\ pc = "main"
    /\ is_file \in BOOLEAN
    /\ should_compile \in BOOLEAN
    /\ IF is_file
       THEN walk \in {<<e>> : e \in SourceFiles}
       ELSE walk \in WalksUpTo(MaxEntries)
    /\ DriverFresh

\* ------------------------------------------------------- compiler facade

Mark(i, stage) == [done EXCEPT ![i] = @ \cup {stage}]

\* a directory run that goes on to the next entry after an Err
ErrorTargetNextEntry == IF is_file THEN "returned" ELSE "walk"

\* where an Err goes: `?` in compile_directory (lines 56, 69) and map in
\* compile_file (line 45) both hand it to main at once
ErrorTarget == "returned"

\* an Err of the module at entry i becomes the result of the run
ReturnErr(i, what) ==
    /\ result' = [kind |-> "err", files |-> <<>>, error |-> what]
    /\ failed' = [failed EXCEPT ![i] = TRUE]
    /\ pc' = ErrorTarget

\* main, lines 61-65
MainDispatch ==
    /\ pc = "main"
    /\ pc' = IF is_file THEN "read_file" ELSE "walk"
    /\ UNCHANGED <<lexvars, genvars, is_file, should_compile, walk, idx, cur, toks, modules,
                   generated_files, result, fs_out, diagnostics, emit_all_called,
                   success_msg, exit_code, cargo_runs, cargo_failed, done, failed,
                   io_errors>>

\* compile_file up to the call of compile_source
CompileFileRead ==
    /\ pc = "read_file"
    /\ \E ok \in BOOLEAN :
         IF ok
         THEN /\ cur' = 1
              /\ done' = Mark(1, "read")
              /\ pc' = "lex"
              /\ UNCHANGED <<result, failed, io_errors>>
         ELSE /\ ReturnErr(1, "IoError")
              /\ io_errors' = io_errors \cup {"read"}
              /\ cur' = 1
              /\ UNCHANGED done
    /\ idx' = 1
    /\ UNCHANGED <<lexvars, genvars, is_file, should_compile, walk, toks, modules,
                   generated_files, fs_out, diagnostics, emit_all_called,
                   success_msg, exit_code, cargo_runs, cargo_failed>>

\* compile_directory: one turn of the for loop up to the call of
\* compile_source, or the end of the loop
CompileDirectoryNext ==
    /\ pc = "walk"
    /\ IF idx >= Len(walk)
       THEN /\ result' = [kind |-> "ok", files |-> generated_files]
            /\ pc' = "returned"
            /\ UNCHANGED <<idx, cur, done, failed, io_errors>>
       ELSE LET e == walk[idx + 1]
            IN  /\ idx' = idx + 1
                /\ IF e.kind = "error"
                   THEN \* filter_map(|e| e.ok()) drops the entry
                        /\ io_errors' = io_errors \cup {"walk"}
                        /\ UNCHANGED <<pc, cur, done, failed, result>>
                   ELSE IF e.kind = "other"
                   THEN UNCHANGED <<pc, cur, done, failed, result, io_errors>>
                   ELSE \E ok \in BOOLEAN :
                          IF ok
                          THEN /\ cur' = idx + 1
                               /\ done' = Mark(idx + 1, "read")
                               /\ pc' = "lex"
                               /\ UNCHANGED <<result, failed, io_errors>>
                          ELSE /\ ReturnErr(idx + 1, "IoError")
                               /\ io_errors' = io_errors \cup {"read"}
                               /\ cur' = idx + 1
                               /\ UNCHANGED done
    /\ UNCHANGED <<lexvars, genvars, is_file, should_compile, walk, toks, modules,
                   generated_files, fs_out, diagnostics, emit_all_called,
                   success_msg, exit_code, cargo_runs, cargo_failed>>

\* `let tokens = lexer.tokenize()?;`
AfterLex(kind) ==
    IF kind = "ok" THEN "parse" ELSE IF kind = "err" THEN ErrorTarget ELSE "panic"

\* `let ast = parser.parse()?;`
AfterParse(outcome) == IF outcome = "ok" THEN "analyze" ELSE ErrorTarget

\* an analysis whose result is dropped
AfterAnalyzeUnchecked(outcome) == "codegen"

\* `analyzer.analyze(&ast)?;`
AfterAnalyze(outcome) == IF outcome = "ok" THEN "codegen" ELSE ErrorTarget

\* SemanticAnalyzer::analyze: Err when the pass recorded an Error diagnostic
AnalyzeOutcome(nerrors) == IF nerrors > 0 THEN "err" ELSE "ok"

Diagnostic(severity, i) == [severity |-> severity, module |-> i]

\* n diagnostics of one severity for module i
Reports(severity, i, n) == [k \in 1..n |-> Diagnostic(severity, i)]

\* compile_source, lines 84-85
CompileSourceLex ==
    /\ pc = "lex"
    /\ \E m \in AdvanceAtEnd :
         LET r == tokenize(walk[cur].text, m)
             next == AfterLex(r.kind)
         IN  /\ pc' = next
             /\ IF next = "parse"
                THEN /\ toks' = r.tokens
                     /\ done' = Mark(cur, "lexed")
                     /\ UNCHANGED <<result, failed>>
                ELSE IF next = "panic"
                THEN UNCHANGED <<toks, done, result, failed>>
                ELSE /\ result' = [kind |-> "err", files |-> <<>>,
                                   error |-> [msg |-> r.msg, arg |-> r.arg]]
                     /\ failed' = [failed EXCEPT ![cur] = TRUE]
                     /\ UNCHANGED <<toks, done>>
    /\ UNCHANGED <<lexvars, genvars, is_file, should_compile, walk, idx, cur, modules,
                   generated_files, fs_out, diagnostics, emit_all_called,
                   success_msg, exit_code, cargo_runs, cargo_failed, io_errors>>

\* compile_source, lines 87-88: the parser is built from the tokens and run
CompileSourceParse ==
    /\ pc = "parse"
    /\ \E outcome \in {"ok", "err"}, reported \in BOOLEAN :
         LET next == AfterParse(outcome)
         IN  /\ outcome = "ok" => ~reported
             /\ diagnostics' = IF reported
                               THEN Append(diagnostics, Diagnostic("Error", cur))
                               ELSE diagnostics
             /\ pc' = next
             /\ IF next = "analyze"
                THEN /\ done' = Mark(cur, "parsed")
                     /\ UNCHANGED <<result, failed>>
                ELSE /\ result' = [kind |-> "err", files |-> <<>>, error |-> "ParseError"]
                     /\ failed' = [failed EXCEPT ![cur] = TRUE]
                     /\ UNCHANGED done
    /\ UNCHANGED <<lexvars, genvars, is_file, should_compile, walk, idx, cur, toks, modules,
                   generated_files, fs_out, emit_all_called, success_msg, exit_code,
                   cargo_runs, cargo_failed, io_errors>>

\* compile_source, lines 90-91: one analysis pass, which records its
\* diagnostics and goes on after each
CompileSourceAnalyze ==
    /\ pc = "analyze"
    /\ \E nerrors \in 0..MaxErrors, warned \in BOOLEAN :
         LET next == AfterAnalyze(AnalyzeOutcome(nerrors))
         IN  /\ diagnostics' = diagnostics \o Reports("Error", cur, nerrors)
                                  \o Reports("Warning", cur, IF warned THEN 1 ELSE 0)
             /\ pc' = next
             /\ IF next = "codegen"
                THEN /\ done' = Mark(cur, "analyzed")
                     /\ UNCHANGED <<result, failed>>
                ELSE /\ result' = [kind |-> "err", files |-> <<>>, error |-> "SemanticError"]
                     /\ failed' = [failed EXCEPT ![cur] = TRUE]
                     /\ UNCHANGED done
    /\ UNCHANGED <<lexvars, genvars, is_file, should_compile, walk, idx, cur, toks, modules,
                   generated_files, fs_out, emit_all_called, success_msg, exit_code,
                   cargo_runs, cargo_failed, io_errors>>

\* HashMap::insert(module_name, ast.clone())
Insert(registry, name, i) ==
    [s \in DOMAIN registry \cup {name} |-> IF s = name THEN i ELSE registry[s]]

\* compile_source, lines 93-96: the registry is written, then the generator runs
CompileSourceGenerate ==
    /\ pc = "codegen"
    /\ modules' = Insert(modules, walk[cur].stem, cur)
    /\ \E ok \in BOOLEAN :
         IF ok
         THEN /\ done' = [done EXCEPT ![cur] = @ \cup {"registered", "generated"}]
              /\ pc' = "mkdir"
              /\ UNCHANGED <<result, failed>>
         ELSE /\ result' = [kind |-> "err", files |-> <<>>, error |-> "CodegenError"]
              /\ failed' = [failed EXCEPT ![cur] = TRUE]
              /\ pc' = ErrorTarget
              /\ done' = Mark(cur, "registered")
    /\ UNCHANGED <<lexvars, genvars, is_file, should_compile, walk, idx, cur, toks,
                   generated_files, fs_out, diagnostics, emit_all_called,
                   success_msg, exit_code, cargo_runs, cargo_failed, io_errors>>

\* compile_source, lines 98-99
CompileSourceCreateDir ==
    /\ pc = "mkdir"
    /\ \E ok \in BOOLEAN :
         IF ok
         THEN /\ pc' = "write"
              /\ UNCHANGED <<result, failed, io_errors>>
         ELSE /\ ReturnErr(cur, "IoError")
              /\ io_errors' = io_errors \cup {"create_dir_all"}
    /\ UNCHANGED <<lexvars, genvars, is_file, should_compile, walk, idx, cur, toks, modules,
                   generated_files, fs_out, diagnostics, emit_all_called,
                   success_msg, exit_code, cargo_runs, cargo_failed, done>>

\* what fs::write leaves at the path of a module's output file
RustCode(i) == [by |-> "codegen", module |-> i]

\* compile_source, lines 101-105, and what its caller does with the path:
\* compile_file returns vec![path], compile_directory pushes it and loops
CompileSourceWrite ==
    /\ pc = "write"
    /\ \E ok \in BOOLEAN :
         IF ok
         THEN LET path == RustFilePath(walk[cur].stem)
              IN  /\ fs_out' = [fs_out EXCEPT ![path] = RustCode(cur)]
                  /\ done' = Mark(cur, "written")
                  /\ IF is_file
                     THEN /\ result' = [kind |-> "ok", files |-> <<path>>]
                          /\ pc' = "returned"
                          /\ UNCHANGED generated_files
                     ELSE /\ generated_files' = Append(generated_files, path)
                          /\ pc' = "walk"
                          /\ UNCHANGED result
                  /\ UNCHANGED <<failed, io_errors>>
         ELSE /\ ReturnErr(cur, "IoError")
              /\ io_errors' = io_errors \cup {"write"}
              /\ UNCHANGED <<fs_out, done, generated_files>>
    /\ UNCHANGED <<lexvars, genvars, is_file, should_compile, walk, idx, cur, toks, modules,
                   diagnostics, emit_all_called, success_msg, exit_code,
                   cargo_runs, cargo_failed>>

\* ------------------------------------------------------------------- main

\* a main that builds whenever --compile is set, whatever the result
AfterCompileAlwaysBuild(kind, compile) == IF compile THEN "manifest" ELSE "exit"

\* `match result`, lines 67-95, up to the call of compile_to_native
AfterCompile(kind, compile) ==
    IF kind = "ok" THEN (IF compile THEN "manifest" ELSE "exit") ELSE "exit"

MatchResult ==
    /\ pc = "returned"
    /\ LET next == AfterCompile(result.kind, should_compile)
       IN  /\ pc' = next
           /\ IF result.kind = "ok"
              THEN /\ success_msg' = (next = "exit")
                   /\ exit_code' = IF next = "exit" THEN 0 ELSE exit_code
                   /\ UNCHANGED emit_all_called
              ELSE /\ emit_all_called' = (next = "exit")
                   /\ exit_code' = IF next = "exit" THEN 1 ELSE exit_code
                   /\ UNCHANGED success_msg
    /\ UNCHANGED <<lexvars, genvars, is_file, should_compile, walk, idx, cur, toks, modules,
                   generated_files, result, fs_out, diagnostics, cargo_runs,
                   cargo_failed, done, failed, io_errors>>

\* main's Err arm of compile_to_native: eprint and process::exit(1)
BuildFailed ==
    /\ pc' = "exit"
    /\ exit_code' = 1
    /\ UNCHANGED <<success_msg, emit_all_called>>

\* compile_to_native, lines 113-123
NativeWriteManifest ==
    /\ pc = "manifest"
    /\ \E ok \in BOOLEAN :
         IF ok
         THEN /\ fs_out' = [fs_out EXCEPT ![CargoToml] = [by |-> "manifest"]]
              /\ pc' = "lib"
              /\ UNCHANGED <<exit_code, success_msg, emit_all_called, io_errors>>
         ELSE /\ BuildFailed
              /\ io_errors' = io_errors \cup {"write"}
              /\ UNCHANGED fs_out
    /\ UNCHANGED <<lexvars, genvars, is_file, should_compile, walk, idx, cur, toks, modules,
                   generated_files, result, diagnostics, cargo_runs, cargo_failed,
                   done, failed>>

\* the module names lib.rs lists: the stem of each generated path, in order
LibContent(rust_files) == [k \in 1..Len(rust_files) |-> FileStem(rust_files[k])]

\* compile_to_native, lines 125-139
NativeWriteLib ==
    /\ pc = "lib"
    /\ \E ok \in BOOLEAN :
         IF ok
         THEN /\ fs_out' = [fs_out EXCEPT
                               ![LibRs] = [by |-> "lib", mods |-> LibContent(result.files)]]
              /\ pc' = "cargo"
              /\ UNCHANGED <<exit_code, success_msg, emit_all_called, io_errors>>
         ELSE /\ BuildFailed
              /\ io_errors' = io_errors \cup {"write"}
              /\ UNCHANGED fs_out
    /\ UNCHANGED <<lexvars, genvars, is_file, should_compile, walk, idx, cur, toks, modules,
                   generated_files, result, diagnostics, cargo_runs, cargo_failed,
                   done, failed>>

\* compile_to_native, lines 141-156, and main's two arms for its result
NativeRunCargo ==
    /\ pc = "cargo"
    /\ \E outcome \in {"not_spawned", "nonzero", "success"} :
         /\ cargo_runs' = IF outcome = "not_spawned" THEN cargo_runs ELSE cargo_runs + 1
         /\ cargo_failed' = (outcome = "nonzero")
         /\ IF outcome = "success"
            THEN /\ success_msg' = TRUE
                 /\ exit_code' = 0
                 /\ pc' = "exit"
                 /\ UNCHANGED emit_all_called
            ELSE BuildFailed
    /\ UNCHANGED <<lexvars, genvars, is_file, should_compile, walk, idx, cur, toks, modules,
                   generated_files, result, fs_out, diagnostics, done, failed,
                   io_errors>>

Next ==
    \/ MainDispatch
    \/ CompileFileRead
    \/ CompileDirectoryNext
    \/ CompileSourceLex
    \/ CompileSourceParse
    \/ CompileSourceAnalyze
    \/ CompileSourceGenerate
    \/ CompileSourceCreateDir
    \/ CompileSourceWrite
    \/ MatchResult
    \/ NativeWriteManifest
    \/ NativeWriteLib
    \/ NativeRunCargo

Spec == Init /\ [][Next]_vars

\* ------------------------------------------------- the lexer on its own

\* Lexer::new on every source text of at most MaxLen characters
LexInit ==
    /\ DriverIdle
    /\ GenIdle
    /\ input \in TextsUpTo(MaxLen)
    /\ lexer = NewLexer
    /\ tokens = <<>>
    /\ lexpc = "loop"
    /\ lexerr = NoError

\* the head of tokenize's while loop: the loop test, skip_whitespace, and the
\* break at the end of input
LexLoop ==
    /\ lexpc = "loop"
    /\ LET L0 == IF is_at_end(input, lexer) THEN lexer
                 ELSE skip_whitespace(input, lexer)
       IN  /\ lexer' = L0
           /\ lexpc' = IF is_at_end(input, L0) THEN "eof" ELSE "scan"
    /\ UNCHANGED <<input, tokens, lexerr, drivervars, genvars>>

\* let token_type = self.scan_token()?; tokens.push(Token { .. })
LexScan ==
    /\ lexpc = "scan"
    /\ \E m \in AdvanceAtEnd :
         LET r == scan_token(input, lexer, m)
         IN  /\ lexer' = r.L
             /\ IF r.kind = "ok"
                THEN /\ tokens' = Append(tokens, MakeToken(r, lexer))
                     /\ lexpc' = "loop"
                     /\ lexerr' = lexerr
                ELSE IF r.kind = "err"
                THEN /\ lexpc' = "err"
                     /\ lexerr' = [msg |-> r.msg, arg |-> r.arg]
                     /\ tokens' = tokens
                ELSE /\ lexpc' = "panic"
                     /\ UNCHANGED <<tokens, lexerr>>
    /\ UNCHANGED <<input, drivervars, genvars>>

\* tokens.push(Eof); Ok(tokens)
LexEof ==
    /\ lexpc = "eof"
    /\ tokens' = Append(tokens, EofToken(lexer))
    /\ lexpc' = "ok"
    /\ UNCHANGED <<input, lexer, lexerr, drivervars, genvars>>

LexNext == LexLoop \/ LexScan \/ LexEof

LexSpec == LexInit /\ [][LexNext]_vars

\* ------------------------------------- the code generator on its own

\* field names, numbered, and the expressions an initializer gives them
FieldNames == 1..MaxFields

FieldValues == {"e1", "e2"}

\* every order of the elements of a set, as sequences
Orders(S) ==
    {o \in [1..Cardinality(S) -> S] : \A a, b \in 1..Cardinality(S) : a # b => o[a] # o[b]}

\* Struct::fields, a Vec: the field names in the order of the declaration
StructDecls == UNION {Orders(S) : S \in SUBSET FieldNames}

\* StructInitializer::fields, a HashMap, of an initializer that passed the
\* analysis: exactly the declared fields
InitializersOf(decl) == [{decl[k] : k \in DOMAIN decl} -> FieldValues]

\* the orders in which iterating the HashMap may yield its keys
IterationOrders(fields) == Orders(DOMAIN fields)

\* a lowering that walks the HashMap in its own order
generate_struct_init_by_map(decl, fields, order) ==
    [k \in DOMAIN order |-> <<order[k], fields[order[k]]>>]

\* the lowering of a struct initializer: the declared fields in their order,
\* each value looked up by name; the order of the map is not used
generate_struct_init(decl, fields, order) ==
    [k \in DOMAIN decl |-> <<decl[k], fields[decl[k]]>>]

GenInit ==
    /\ LexIdle
    /\ DriverIdle
    /\ struct_decl \in StructDecls
    /\ init_fields \in InitializersOf(struct_decl)
    /\ genpc = "first"
    /\ generated = <<>>

\* CodeGenerator::generate on the initializer, once and once again; each run
\* meets the map in some iteration order
Generate ==
    /\ genpc \in {"first", "second"}
    /\ \E order \in IterationOrders(init_fields) :
         generated' = Append(generated,
                             generate_struct_init(struct_decl, init_fields, order))
    /\ genpc' = IF genpc = "first" THEN "second" ELSE "done"
    /\ UNCHANGED <<struct_decl, init_fields, lexvars, drivervars>>

GenNext == Generate

GenSpec == GenInit /\ [][GenNext]_vars

\* ----------------------------------------------------------------- claims

SourceEntries == {i \in DOMAIN walk : walk[i].kind = "rsc"}

HasErrorDiagnostic(i) ==
    \E k \in DOMAIN diagnostics :
        diagnostics[k].severity = "Error" /\ diagnostics[k].module = i

\* the module at entry i was handed to the code generator
Generated(i) ==
    \/ "generated" \in done[i]
    \/ "written" \in done[i]
    \/ cur = i /\ pc \in {"codegen", "mkdir", "write"}
    \/ \E p \in OutputPaths : fs_out[p] = RustCode(i)

\* C1: a module reaches the code generator, and its output file is written,
\* only after its source was read and lexing, parsing and analysis all ended
\* without an error: its text lexes, no stage failed, and no Error diagnostic
\* is recorded for it.
C1_GenerateOnlyAfterCleanStages ==
    \A i \in DOMAIN walk :
        Generated(i) =>
            /\ {"read", "lexed", "parsed", "analyzed"} \subseteq done[i]
            /\ \A m \in AdvanceAtEnd : tokenize(walk[i].text, m).kind = "ok"
            /\ ~HasErrorDiagnostic(i)
            /\ ("written" \in done[i] => "generated" \in done[i])

\* one module written, and another stopped by a semantic Error before the
\* generator
C1_Witness ==
    \E i, j \in DOMAIN walk :
        /\ "written" \in done[i]
        /\ fs_out[RustFilePath(walk[i].stem)] = RustCode(i)
        /\ failed[j] /\ "parsed" \in done[j] /\ HasErrorDiagnostic(j)
        /\ ~Generated(j)

\* the run succeeded: the compile did and, with --compile, the build did
BuildSucceeded == cargo_runs = 1 /\ ~cargo_failed /\ fs_out[LibRs] # Absent

Succeeded == result.kind = "ok" /\ (should_compile => BuildSucceeded)

\* C2: main exits with 0 exactly when the compile (and the build, with
\* --compile) succeeded, and otherwise with 1 and only after emit_all ran.
C2_ExitCodeAfterEmitAll ==
    pc = "exit" =>
        /\ exit_code = 0 <=> Succeeded
        /\ ~Succeeded => exit_code = 1 /\ emit_all_called

\* C3: compile_directory works on one module at a time, in the order of the
\* walk, and the first module whose pipeline fails ends the run: its error is
\* the result and no later entry is read, lexed, analysed or written.
C3_FailFast ==
    ~is_file =>
        \A i \in DOMAIN walk :
            /\ failed[i] =>
                 /\ pc \in {"returned", "exit"}
                 /\ result.kind = "err"
                 /\ \A j \in DOMAIN walk : j > i => done[j] = {} /\ ~failed[j]
            /\ (done[i] # {} \/ failed[i]) =>
                 \A h \in SourceEntries : h < i => "written" \in done[h]

\* a module failed and a source file after it was left alone
C3_Witness ==
    /\ ~is_file
    /\ pc = "exit"
    /\ \E i, j \in SourceEntries : i < j /\ failed[i] /\ done[i] # {} /\ done[j] = {}

\* C4: after any failed filesystem access the run ends with exit code 1.
C4_IoFailureIsFatal ==
    (pc = "exit" /\ io_errors # {}) => (exit_code = 1 /\ ~success_msg)

\* C5: between two modules and after the last one, every module of the
\* registry has completed its pipeline, output file included.
C5_RegistryOnlySucceeded ==
    pc \in {"walk", "returned", "manifest", "lib", "cargo", "exit"} =>
        \A s \in DOMAIN modules : "written" \in done[modules[s]]

\* the paths of a list, without repetition
PathSet(files) == {files[k] : k \in DOMAIN files}

\* C6: a directory run whose N source files all compiled has written N
\* output files, each holding the text generated for its own module, and
\* returns N distinct paths.
C6_OneOutputPerModule ==
    (~is_file /\ pc = "returned" /\ result.kind = "ok") =>
        LET N == Cardinality(SourceEntries)
        IN  /\ Cardinality({p \in OutputPaths : fs_out[p] # Absent}) = N
            /\ Len(result.files) = N
            /\ Cardinality(PathSet(result.files)) = N
            /\ \A i \in SourceEntries : fs_out[RustFilePath(walk[i].stem)] = RustCode(i)

\* C7: cargo is spawned at most once; only with --compile, after every
\* module compiled and after Cargo.toml and a lib.rs naming every generated
\* module were written; a run that ends well with --compile has spawned it;
\* and after a non-zero status the run ends with code 1 and no success message.
C7_NativeBuild ==
    /\ cargo_runs <= 1
    /\ (cargo_runs = 1 \/ pc = "cargo") =>
         /\ should_compile
         /\ result.kind = "ok"
         /\ \A i \in DOMAIN walk : ~failed[i]
         /\ \A i \in SourceEntries : "written" \in done[i]
         /\ fs_out[CargoToml] = [by |-> "manifest"]
         /\ fs_out[LibRs] = [by |-> "lib", mods |-> LibContent(result.files)]
         /\ {fs_out[LibRs].mods[k] : k \in DOMAIN fs_out[LibRs].mods}
               = {walk[i].stem : i \in SourceEntries}
    /\ (pc = "exit" /\ should_compile /\ exit_code = 0) => cargo_runs = 1
    /\ cargo_failed => (pc = "exit" /\ exit_code = 1 /\ ~success_msg)

\* cargo ran once on two generated modules and failed
C7_Witness ==
    /\ cargo_runs = 1
    /\ cargo_failed
    /\ pc = "exit"
    /\ Len(result.files) = 2

TokenTypes(ts) == [k \in DOMAIN ts |-> ts[k].token_type]

TwoCharOperators ==
    {<<"-", ">", "Arrow", "Minus">>, <<"=", "=", "Equal", "Assign">>,
     <<"!", "=", "NotEqual", "Not">>, <<"<", "=", "LessEqual", "Less">>,
     <<">", "=", "GreaterEqual", "Greater">>}

PairOnlyOperators == {<<"&", "And">>, <<"|", "Or">>}

\* the scan pushed one token of this type and consumed n characters
Scanned(type, n) ==
    /\ lexpc' = "loop"
    /\ tokens' = Append(tokens, tokens'[Len(tokens')])
    /\ tokens'[Len(tokens')].token_type = type
    /\ tokens'[Len(tokens')].start_pos = lexer.position
    /\ lexer'.position = lexer.position + n

\* C9: a scan that starts at the first character of a two-character operator
\* yields the two-character token when the second follows at once, and
\* otherwise the one-character token, one character consumed; a lone & or |
\* is a lex error.
C9_ScanStep ==
    (lexpc = "scan" /\ lexpc' # "scan") =>
        LET c == input[lexer.position + 1]
            n == IF lexer.position + 2 <= Len(input) THEN input[lexer.position + 2] ELSE NUL
        IN  /\ \A op \in TwoCharOperators :
                  c = op[1] => IF n = op[2] THEN Scanned(op[3], 2) ELSE Scanned(op[4], 1)
            /\ \A op \in PairOnlyOperators :
                  c = op[1] =>
                      IF n = op[1] THEN Scanned(op[2], 2)
                      ELSE /\ lexpc' = "err"
                           /\ lexerr'.msg = "Unexpected character: "
                           /\ lexerr'.arg = c
                           /\ tokens' = tokens

C9_TwoCharOperators == [][C9_ScanStep]_vars

\* `-->` is Minus, Arrow
C9_Witness ==
    /\ input = <<"-", "-", ">">>
    /\ lexpc = "ok"
    /\ TokenTypes(tokens) = <<"Minus", "Arrow", "Eof">>

\* the literal that opens before position p (1-based) has no closing quote:
\* the input ends before an unescaped quote, every escape on the way being
\* one of the known ones, or the input ending right after a backslash
RECURSIVE NoClosingQuote(_, _)
NoClosingQuote(inp, p) ==
    IF p > Len(inp) THEN TRUE
    ELSE IF inp[p] = Quote THEN FALSE
    ELSE IF inp[p] = Backslash
    THEN IF p + 1 > Len(inp) THEN TRUE
         ELSE inp[p + 1] \in Escapes /\ NoClosingQuote(inp, p + 2)
    ELSE NoClosingQuote(inp, p + 1)

UnterminatedLiteral(inp) == inp # <<>> /\ inp[1] = Quote /\ NoClosingQuote(inp, 2)

\* C10: lexing a text that is a string literal without its closing quote
\* ends with the lex error "Unterminated string".
C10_UnterminatedString ==
    (UnterminatedLiteral(input) /\ lexpc \in {"ok", "err", "panic"}) =>
        (lexpc = "err" /\ lexerr.msg = "Unterminated string")

\* characters of the alphabet that start no token of the grammar
NoTokenChars == {"@", Backslash}

\* the error value of a failed tokenize
ErrorValue(r) == [msg |-> r.msg, arg |-> r.arg]

\* C11: a lex error for a character that starts no token reports the
\* character and where it stands: the same text moved one line down, where the
\* character stands on another line, gives another error value.
C11_ErrorReportsLocation ==
    (lexpc = "err" /\ lexerr.msg = "Unexpected character: " /\ lexerr.arg \in NoTokenChars) =>
        \A m \in AdvanceAtEnd :
            LET moved == tokenize(<<Newline>> \o input, m)
            IN  moved.kind = "err" /\ ErrorValue(moved) # lexerr

\* the one-character operators and punctuators of the grammar, each with its
\* token type
SingleCharTokens ==
    {<<"(", "LeftParen">>, <<")", "RightParen">>, <<"{", "LeftBrace">>,
     <<"}", "RightBrace">>, <<"[", "LeftBracket">>, <<"]", "RightBracket">>,
     <<",", "Comma">>, <<".", "Dot">>, <<":", "Colon">>, <<";", "Semicolon">>,
     <<"+", "Plus">>, <<"*", "Star">>, <<"%", "Percent">>}

\* C13: no operator or punctuator of the grammar is rejected as an unexpected
\* character, and a token that starts at one of the one-character operators
\* has that operator's type (% is Percent, ( is LeftParen).
C13_EveryOperatorLexed ==
    /\ (lexpc = "err" /\ lexerr.msg = "Unexpected character: ") =>
          lexerr.arg \notin {op[1] : op \in SingleCharTokens}
    /\ \A k \in DOMAIN tokens : \A op \in SingleCharTokens :
          (tokens[k].token_type # "Eof" /\ input[tokens[k].start_pos + 1] = op[1]) =>
              tokens[k].token_type = op[2]

\* the text from position p (1-based) on, each comment removed from its //
\* up to, not including, the end of its line; the text holds no string
RECURSIVE StripFrom(_, _, _)
StripFrom(inp, p, inComment) ==
    IF p > Len(inp) THEN <<>>
    ELSE IF inComment
    THEN IF inp[p] = Newline THEN <<Newline>> \o StripFrom(inp, p + 1, FALSE)
         ELSE StripFrom(inp, p + 1, TRUE)
    ELSE IF inp[p] = "/" /\ p < Len(inp) /\ inp[p + 1] = "/"
    THEN StripFrom(inp, p + 2, TRUE)
    ELSE <<inp[p]>> \o StripFrom(inp, p + 1, FALSE)

StripComments(inp) == StripFrom(inp, 1, FALSE)

HasNoString(inp) == \A k \in DOMAIN inp : inp[k] # Quote

\* C14: a comment contributes no token and no error: whenever the text
\* without its comments lexes, the text lexes too, to the same token types.
C14_CommentsContributeNothing ==
    (HasNoString(input) /\ lexpc \in {"ok", "err", "panic"}) =>
        \A m \in AdvanceAtEnd :
            LET bare == tokenize(StripComments(input), m)
            IN  bare.kind = "ok" =>
                    /\ lexpc = "ok"
                    /\ TokenTypes(tokens) = TokenTypes(bare.tokens)

\* the index (1-based) of the last newline among the first p characters, or 0
RECURSIVE LastNewline(_, _)
LastNewline(inp, p) ==
    IF p = 0 THEN 0 ELSE IF inp[p] = Newline THEN p ELSE LastNewline(inp, p - 1)

\* the line and column of position p (0-based), counted from the text
TrueLocation(inp, p) ==
    [line |-> 1 + Cardinality({k \in 1..p : inp[k] = Newline}),
     column |-> p + 1 - LastNewline(inp, p)]

HasNoComment(inp) ==
    \A k \in DOMAIN inp : ~(inp[k] = "/" /\ k < Len(inp) /\ inp[k + 1] = "/")

\* C15: newlines inside strings are tracked like newlines outside: between
\* two scans the lexer's line and column are those of its position in the
\* text, and every token after a string starts at the line and column of its
\* first character.
C15_LineColumnTracking ==
    (HasNoComment(input) /\ lexpc \in {"loop", "scan", "eof", "ok"}) =>
        /\ [line |-> lexer.line, column |-> lexer.column]
              = TrueLocation(input, lexer.position)
        /\ \A k \in DOMAIN tokens :
              [line |-> tokens[k].span.start_line, column |-> tokens[k].span.start_column]
                  = TrueLocation(input, tokens[k].start_pos)

\* position p (0-based) is the first / of a comment
StartsComment(inp, p) ==
    p + 2 <= Len(inp) /\ inp[p + 1] = "/" /\ inp[p + 2] = "/"

\* location a is not after location b
NotAfter(a, b) == a.line < b.line \/ (a.line = b.line /\ a.column <= b.column)

SpanStart(t) == [line |-> t.span.start_line, column |-> t.span.start_column]

SpanEnd(t) == [line |-> t.span.end_line, column |-> t.span.end_column]

\* C16: every token's span starts at the token's own first character, which
\* is never the start of a comment, and does not end before it starts; the
\* span of Eof is the end of the input.
C16_SpanStartsAtToken ==
    HasNoString(input) =>
        \A k \in DOMAIN tokens :
            LET t == tokens[k]
            IN  /\ SpanStart(t) = TrueLocation(input, t.start_pos)
                /\ NotAfter(SpanStart(t), SpanEnd(t))
                /\ t.token_type # "Eof" => ~StartsComment(input, t.start_pos)
                /\ t.token_type = "Eof" =>
                      /\ t.start_pos = Len(input)
                      /\ SpanEnd(t) = TrueLocation(input, Len(input))

\* the field names of a generated initializer, in the order of the text
FieldOrder(text) == [k \in DOMAIN text |-> text[k][1]]

\* C12: whatever order the initializer's map is iterated in, the generated
\* fields are the declared fields in the declared order, each with its own
\* value, and two generations from the same initializer give the same text.
C12_DeclaredFieldOrder ==
    /\ \A g \in DOMAIN generated :
          /\ FieldOrder(generated[g]) = struct_decl
          /\ \A k \in DOMAIN generated[g] :
                generated[g][k][2] = init_fields[generated[g][k][1]]
    /\ Len(generated) = 2 => generated[1] = generated[2]

\* a struct of several fields, generated twice
C12_Witness ==
    /\ genpc = "done"
    /\ Len(generated) = 2
    /\ Len(struct_decl) = MaxFields
    /\ \E a, b \in DOMAIN struct_decl : a < b /\ struct_decl[a] > struct_decl[b]

====
